---- MODULE Spec2Model ----
(***************************************************************************)
(* Climbiq hold pipeline: the hold grader (lambda-docker/hold), the route  *)
(* grader (lib/handlers/grade_route_lambda.py) and the band restriction of *)
(* the contour extractor (both copies of contour_lambda.py).               *)
(*                                                                         *)
(* Numbers.  The Python code works on floats.  Here a real number x is the *)
(* integer floor(x * FX) ("fixed point", FX = 1000 units per 1), so every  *)
(* comparison against a threshold is a comparison of integers and every    *)
(* product or quotient is rounded down to 1/FX.                            *)
(***************************************************************************)
EXTENDS Integers, Sequences, FiniteSets, TLC

VARIABLES
    fpc,        \* position of the feature harness: "in", "classified", "graded"
    fin,        \* its inputs [area, circ, conv, ar] (fixed point)
    ftype,      \* classify_hold's result, "none" before it ran
    fgtype,     \* the hold_type handed to compute_hold_grade
    fgrade      \* compute_hold_grade's result, 0 before it ran

fvars == <<fpc, fin, ftype, fgtype, fgrade>>

VARIABLES
    hbatch,     \* grade_hold_lambda: the request, a sequence of crops in metadata order
    hstatus,    \* its response's statusCode, 0 before any request
    hupdated,   \* its response's updated_metadata: hold index -> entry
    hfeat       \* the features the handler computed for each hold it graded

hvars == <<hbatch, hstatus, hupdated, hfeat>>

VARIABLES
    rreq,       \* grade_route_lambda: the request [meta, wall_angle, start_hold, full_image]
    rresp,      \* its response and the values it computed on the way, NoResp before
    rs3,        \* the keys stored in the image bucket
    rddb,       \* the records written to the history table
    qreq,       \* a second, independent request to grade_route_lambda
    qresp       \* and its response

rvars == <<rreq, rresp, rs3, rddb, qreq, qresp>>

VARIABLES
    btotal,     \* two totals handed to the V-grade lookup
    blabel      \* the two labels it returned, <<>> before

bvars == <<btotal, blabel>>

VARIABLES
    mmask,      \* apply_line_filter: the mask handed in, row -> column -> 0 or 255
    mleft,      \* left_line
    mright,     \* right_line
    mout        \* the mask it returned, <<>> before

mvars == <<mmask, mleft, mright, mout>>

VARIABLES
    creq,       \* contour_lambda: the request, <<>> before any
    cresp,      \* the response of the lib/handlers copy, NoResp before
    dresp,      \* the response of the lambda-docker copy, NoResp before
    cdecodes    \* how often each copy ran cv2.imdecode on the request's image

cvars == <<creq, cresp, dresp, cdecodes>>

vars == <<fpc, fin, ftype, fgtype, fgrade, hbatch, hstatus, hupdated, hfeat,
          rreq, rresp, rs3, rddb, qreq, qresp, btotal, blabel,
          mmask, mleft, mright, mout, creq, cresp, dresp, cdecodes>>

----------------------------------------------------------------------------
(* Fixed-point helpers *)

FX == 10 * 100

Max(a, b) == IF a >= b THEN a ELSE b
Min(a, b) == IF a <= b THEN a ELSE b
Abs(a) == IF a >= 0 THEN a ELSE 0 - a

\* floor(a * b / c) for a >= 0, b >= 0, c > 0 without forming a * b
MulDiv(a, b, c) == (a \div c) * b + ((a % c) * b) \div c

\* Python's round() of the fixed-point value x >= 0: nearest integer, ties to even
RoundHalfEven(x) ==
    LET q == x \div FX
        r == x % FX
    IN  IF 2 * r > FX THEN q + 1
        ELSE IF 2 * r < FX THEN q
        ELSE IF q % 2 = 0 THEN q ELSE q + 1

----------------------------------------------------------------------------
(* grade_hold_lambda.py: constants *)

\* PIXEL_TO_CM = 50.0 / 272.0
PIXEL_TO_CM_NUM == 50
PIXEL_TO_CM_DEN == 272
\* EXPECTED_AREA_RANGE = (6.76, 169.0), in 1/100 cm2
EXPECTED_AREA_MIN_C == 676
EXPECTED_AREA_MAX_C == 16900
SIZE_THRESHOLD == 15

HoldTypes == {"foothold", "handhold"}

(* classify_hold(area, circularity, convexity, aspect_ratio) *)
ClassifyScore(area, circularity, convexity, aspect_ratio) ==
      (IF area >= SIZE_THRESHOLD * FX THEN 0 - 1 ELSE 2)
    + (IF 2 * circularity > FX THEN 1 ELSE 0)
    + (IF 10 * convexity < 7 * FX THEN 1 ELSE 0)
    + (IF 7 * FX <= 10 * aspect_ratio /\ 10 * aspect_ratio <= 13 * FX THEN 1 ELSE 0)

classify_hold_size_flipped(area, circularity, convexity, aspect_ratio) ==
    LET score ==
              (IF area > SIZE_THRESHOLD * FX THEN 0 - 1 ELSE 2)
            + (IF 2 * circularity > FX THEN 1 ELSE 0)
            + (IF 10 * convexity < 7 * FX THEN 1 ELSE 0)
            + (IF 7 * FX <= 10 * aspect_ratio /\ 10 * aspect_ratio <= 13 * FX
               THEN 1 ELSE 0)
    IN  IF score >= 2 THEN "foothold" ELSE "handhold"

classify_hold(area, circularity, convexity, aspect_ratio) ==
    IF ClassifyScore(area, circularity, convexity, aspect_ratio) >= 2
    THEN "foothold" ELSE "handhold"

(* compute_hold_grade: the unclamped total (area_score .. modifier) *)
GradeTotal(area, circularity, convexity, aspect_ratio, hold_type) ==
    LET min_a == EXPECTED_AREA_MIN_C
        max_a == EXPECTED_AREA_MAX_C
        \* (max_a - area) / (max_a - min_a) * 8, both ranges in 1/100 cm2
        raw == ((max_a * (FX \div 100) - area) * 8 * 100) \div (max_a - min_a)
        area_score == Max(0, Min(6 * FX, raw))
        circ_score == (FX - circularity) * 3
        conv_score == (FX - convexity) * 3
        ar_score   == Abs(aspect_ratio - FX) * 2
        modifier10 == IF hold_type = "foothold" THEN 15 ELSE 12
    IN  ((area_score + circ_score + conv_score + ar_score) * modifier10) \div 10

compute_hold_grade_no_floor(area, circularity, convexity, aspect_ratio, hold_type) ==
    RoundHalfEven(Max(0, Min(10 * FX,
        GradeTotal(area, circularity, convexity, aspect_ratio, hold_type))))

compute_hold_grade(area, circularity, convexity, aspect_ratio, hold_type) ==
    RoundHalfEven(Max(1 * FX, Min(10 * FX,
        GradeTotal(area, circularity, convexity, aspect_ratio, hold_type))))

----------------------------------------------------------------------------
(* Contour geometry (the OpenCV calls of extract_hold_features and of the  *)
(* grading loop).  A contour is a sequence of integer points <<x, y>>; the *)
(* contours findContours returns are closed polygons.                      *)

RECURSIVE Isqrt(_)
Isqrt(n) ==
    IF n < 2 THEN n
    ELSE LET s == 2 * Isqrt(n \div 4)
         IN  IF (s + 1) * (s + 1) > n THEN s ELSE s + 1

RECURSIVE GCD(_, _)
GCD(a, b) == IF b = 0 THEN a ELSE GCD(b, a % b)

Succ(c, i) == c[(i % Len(c)) + 1]

RECURSIVE SumOver(_, _, _)
SumOver(F(_), lo, hi) == IF lo > hi THEN 0 ELSE F(lo) + SumOver(F, lo + 1, hi)

\* twice cv2.contourArea(c): the shoelace sum, unsigned
ContourArea2(c) ==
    LET term(i) == c[i][1] * Succ(c, i)[2] - Succ(c, i)[1] * c[i][2]
    IN  Abs(SumOver(term, 1, Len(c)))

\* length of one polygon edge, fixed point
EdgeLen(p, q) ==
    LET dx == Abs(q[1] - p[1])
        dy == Abs(q[2] - p[2])
    IN  IF dx = 0 THEN dy * FX
        ELSE IF dy = 0 THEN dx * FX
        ELSE Isqrt((dx * dx + dy * dy) * 100) * (FX \div 10)

\* cv2.arcLength(c, True), fixed point
ArcLength(c) ==
    LET term(i) == EdgeLen(c[i], Succ(c, i))
    IN  IF Len(c) < 2 THEN 0 ELSE SumOver(term, 1, Len(c))

Cross(o, a, b) == (a[1] - o[1]) * (b[2] - o[2]) - (a[2] - o[2]) * (b[1] - o[1])
Dist2(p, q) == (q[1] - p[1]) * (q[1] - p[1]) + (q[2] - p[2]) * (q[2] - p[2])

PointsOf(c) == {c[i] : i \in 1..Len(c)}

\* the hull vertex that follows vertex p (gift wrapping)
HullNext(P, p) ==
    CHOOSE q \in P \ {p} :
        \A r \in P \ {p, q} :
            \/ Cross(p, q, r) > 0
            \/ Cross(p, q, r) = 0 /\ Dist2(p, r) < Dist2(p, q)

RECURSIVE HullFrom(_, _, _, _)
RECURSIVE HullStep(_, _, _, _)
HullStep(P, start, acc, nxt) ==
    IF nxt = start THEN acc ELSE HullFrom(P, start, nxt, Append(acc, nxt))

HullFrom(P, start, cur, acc) == HullStep(P, start, acc, HullNext(P, cur))

\* the leftmost point, the topmost of them
LexMin(P) == CHOOSE p \in P : \A q \in P : p[1] < q[1] \/ (p[1] = q[1] /\ p[2] <= q[2])

HullStart(P, start) ==
    IF Cardinality(P) = 1 THEN <<start>> ELSE HullFrom(P, start, start, <<start>>)

HullOfPoints(P) == HullStart(P, LexMin(P))

\* cv2.convexHull(c): the vertices of the convex hull, in order
ConvexHull(c) == HullOfPoints(PointsOf(c))

SetMax(S) == CHOOSE v \in S : \A w \in S : w <= v
SetMin(S) == CHOOSE v \in S : \A w \in S : v <= w
Extent(S) == SetMax(S) - SetMin(S)

\* the direction of the edge from p to q, reduced to lowest terms
EdgeDir(p, q) ==
    LET g == GCD(Abs(q[1] - p[1]), Abs(q[2] - p[2]))
    IN  <<(q[1] - p[1]) \div g, (q[2] - p[2]) \div g>>

\* the rectangle with a side along e that encloses the points P: its two
\* side lengths times |e|, and |e|^2
RectOnDir(P, e) ==
    [w  |-> Extent({r[1] * e[1] + r[2] * e[2] : r \in P}),
     h  |-> Extent({r[2] * e[1] - r[1] * e[2] : r \in P}),
     e2 |-> e[1] * e[1] + e[2] * e[2]]

\* the enclosing rectangle on hull edge i
EdgeRect(h, i) == RectOnDir(PointsOf(h), EdgeDir(h[i], Succ(h, i)))

HullRects(h) == [i \in 1..Len(h) |-> EdgeRect(h, i)]

\* area(a) < area(b)  <=>  w_a h_a / e2_a < w_b h_b / e2_b
RectLess(a, b) == a.w * a.h * b.e2 < b.w * b.h * a.e2

\* the first rectangle of least area
BestRect(rects) ==
    rects[CHOOSE i \in DOMAIN rects :
            /\ \A j \in DOMAIN rects : ~RectLess(rects[j], rects[i])
            /\ \A j \in 1..(i - 1) : RectLess(rects[i], rects[j])]

MinAreaRectOfHull(h) ==
    IF Len(h) < 2 THEN [w |-> 0, h |-> 0, e2 |-> 1] ELSE BestRect(HullRects(h))

\* cv2.minAreaRect(c): the enclosing rectangle of least area has a side on
\* a hull edge; (w, h) are its sides up to the common factor 1/|e|
MinAreaRect(c) == MinAreaRectOfHull(ConvexHull(c))

----------------------------------------------------------------------------
(* grade_hold_lambda.py: extract_hold_features and lambda_handler *)

\* pixel_area * PIXEL_TO_CM ** 2, fixed point, from twice the pixel area
AreaCm2(area2) ==
    MulDiv((area2 * PIXEL_TO_CM_NUM * PIXEL_TO_CM_NUM) \div 2, FX,
           PIXEL_TO_CM_DEN * PIXEL_TO_CM_DEN)

\* area_cm2 / hull_area if hull_area > 0 else 0, hull2 twice the hull area (px2)
ConvexityOf(area_cm2, hull2) == IF hull2 > 0 THEN (2 * area_cm2) \div hull2 ELSE 0

\* hull = cv2.convexHull(contour); hull_area = cv2.contourArea(hull)
Convexity(contour, area_cm2) ==
    ConvexityOf(area_cm2, ContourArea2(ConvexHull(contour)))

\* 4 * pi * area_cm2 / perimeter ** 2 if perimeter > 0 else 0
CircularityOf(area_cm2, perimeter) ==
    IF perimeter > 0
    THEN MulDiv(4 * area_cm2, 355, 113) \div Max(1, MulDiv(perimeter, perimeter, FX) \div FX)
    ELSE 0

\* perimeter = cv2.arcLength(contour, True)
Circularity(contour, area_cm2) == CircularityOf(area_cm2, ArcLength(contour))

\* max(w / h, h / w) if w > 0 and h > 0 else 1
AspectOf(r) ==
    IF r.w > 0 /\ r.h > 0 THEN MulDiv(Max(r.w, r.h), FX, Min(r.w, r.h)) ELSE FX

AspectRatio(contour) == AspectOf(MinAreaRect(contour))

extract_hold_features(contour, area_cm2) ==
    [circ |-> Circularity(contour, area_cm2),
     conv |-> Convexity(contour, area_cm2),
     ar   |-> AspectRatio(contour)]

\* max(cnts, key=cv2.contourArea): the first contour of greatest area
LargestContour(cnts) ==
    cnts[CHOOSE k \in 1..Len(cnts) :
            /\ \A j \in 1..Len(cnts) : ContourArea2(cnts[j]) <= ContourArea2(cnts[k])
            /\ \A j \in 1..(k - 1) : ContourArea2(cnts[j]) < ContourArea2(cnts[k])]

(* A crop of the request: img is "missing" (no images[fname]), "bad" (the  *)
(* bytes do not decode: cv2.imdecode gives None and cvtColor raises) or    *)
(* "ok"; cnts is what findContours returns on the thresholded crop.        *)
Skipped(crop) == crop.img = "missing" \/ (crop.img = "ok" /\ crop.cnts = <<>>)
Raises(crop) == crop.img = "bad"

\* the entry of a graded hold, with the features it was graded on
GradedEntry(c, area_cm2, f, htype) ==
    [contour |-> c, area_cm2 |-> area_cm2, circ |-> f.circ, conv |-> f.conv,
     ar |-> f.ar, hold_type |-> htype,
     hold_grade |-> compute_hold_grade(area_cm2, f.circ, f.conv, f.ar, htype)]

\* htype = classify_hold(area_cm2, circ, conv, ar)
GradeFeatures(c, area_cm2, f) ==
    GradedEntry(c, area_cm2, f, classify_hold(area_cm2, f.circ, f.conv, f.ar))

\* circ, conv, ar = extract_hold_features(c, area_cm2)
GradeContour(c, area_cm2) ==
    GradeFeatures(c, area_cm2, extract_hold_features(c, area_cm2))

\* pixel_area = cv2.contourArea(c); area_cm2 = pixel_area * (PIXEL_TO_CM**2)
GradeLargest(c) == GradeContour(c, AreaCm2(ContourArea2(c)))

\* the loop body for one crop that has a contour (lines 69-82 of the handler)
GradeOne(crop) == GradeLargest(LargestContour(crop.cnts))

\* the indices the loop grades: every crop it neither skips nor fails on
GradedDomain_stop_at_skip(batch) ==
    {i \in 1..Len(batch) : \A j \in 1..i : ~Skipped(batch[j])}

GradedDomain(batch) == {i \in 1..Len(batch) : ~Skipped(batch[i])}

\* what the loop leaves in `updated`, with the features behind each entry
GradeAll(batch) == [i \in GradedDomain(batch) |-> GradeOne(batch[i])]

\* entry['hold_type'] = htype; entry['hold_grade'] = grade
UpdatedOf(g) ==
    [i \in DOMAIN g |-> [hold_type |-> g[i].hold_type, hold_grade |-> g[i].hold_grade]]

\* lambda_handler of grade_hold_lambda.py: the whole request
GradeHolds(batch) ==
    /\ hstatus = 0
    /\ hbatch' = batch
    /\ IF \E i \in 1..Len(batch) : Raises(batch[i])
       THEN \* except Exception: statusCode 500, body {error}
            /\ hstatus' = 500
            /\ hfeat' = <<>>
            /\ hupdated' = <<>>
       ELSE /\ hstatus' = 200
            /\ hfeat' = GradeAll(batch)
            /\ hupdated' = UpdatedOf(hfeat')
    /\ UNCHANGED <<fvars, rvars, bvars, mvars, cvars>>

----------------------------------------------------------------------------
(* grade_route_lambda.py.  Centers are pixel coordinates, distances are    *)
(* centimeters, angles are degrees, all fixed point.                       *)

DEFAULT_WALL_ANGLE == 20
MAX_STATIC_REACH == 90
MAX_DYNAMIC_REACH == 105

\* V_GRADE_MAPPING; the last interval's hi is float('inf')
V_GRADE_MAPPING ==
    <<[lo |-> 0,  hi |-> 10, inf |-> FALSE, vg |-> "V0"],
      [lo |-> 10, hi |-> 16, inf |-> FALSE, vg |-> "V1"],
      [lo |-> 16, hi |-> 22, inf |-> FALSE, vg |-> "V2"],
      [lo |-> 22, hi |-> 28, inf |-> FALSE, vg |-> "V3"],
      [lo |-> 28, hi |-> 34, inf |-> FALSE, vg |-> "V4"],
      [lo |-> 34, hi |-> 40, inf |-> FALSE, vg |-> "V5"],
      [lo |-> 40, hi |-> 50, inf |-> FALSE, vg |-> "V6"],
      [lo |-> 50, hi |-> 60, inf |-> FALSE, vg |-> "V7"],
      [lo |-> 60, hi |-> 75, inf |-> FALSE, vg |-> "V8"],
      [lo |-> 75, hi |-> 0,  inf |-> TRUE,  vg |-> "V9+"]>>

\* a lookup whose intervals are closed on the right
InBucket_closed(total, b) == b.lo * FX <= total /\ (b.inf \/ total <= b.hi * FX)

\* lo <= total < hi
InBucket(total, b) == b.lo * FX <= total /\ (b.inf \/ total < b.hi * FX)

\* next((vg for lo, hi, vg in V_GRADE_MAPPING if lo <= total < hi), 'V0')
VGrade(total) ==
    LET hits == {i \in 1..Len(V_GRADE_MAPPING) : InBucket(total, V_GRADE_MAPPING[i])}
    IN  IF hits = {} THEN "V0"
        ELSE V_GRADE_MAPPING[CHOOSE i \in hits : \A j \in hits : i <= j].vg

\* a pixel difference times PIXEL_TO_CM
ToCm(d) == MulDiv(Abs(d), PIXEL_TO_CM_NUM, PIXEL_TO_CM_DEN)

\* np.hypot, to 1/100
Hypot(dx, dy) ==
    IF dx = 0 THEN Abs(dy)
    ELSE IF dy = 0 THEN Abs(dx)
    ELSE Isqrt((dx \div 10) * (dx \div 10) + (dy \div 10) * (dy \div 10)) * 10

calculate_distance(p1, p2) == Hypot(ToCm(p2[1] - p1[1]), ToCm(p2[2] - p1[2]))

\* np.degrees(np.arctan(num / den)) for 0 <= num <= den, den > 0: exact at
\* 0 and 45 degrees, within a quarter of a degree between them
ArctanDeg(num, den) ==
    LET z == (num * FX) \div den
    IN  (z * (45 * FX + (15642 * (FX - z)) \div FX)) \div FX

\* abs(np.degrees(np.arctan2(dy, dx)))
calculate_angle(p1, p2) ==
    LET dx == p2[1] - p1[1]
        dy == p2[2] - p1[2]
        ax == Abs(dx) \div 100
        ay == Abs(dy) \div 100
        acute == IF ay <= ax THEN ArctanDeg(ay, ax) ELSE 90 * FX - ArctanDeg(ax, ay)
    IN  IF dx = 0 /\ dy = 0 THEN 0
        ELSE IF dx = 0 THEN 90 * FX
        ELSE IF dx > 0 THEN acute
        ELSE 180 * FX - acute

\* the reach tiers of assess_move_difficulty: (d_score, dyn)
ReachScore_strict(dist) ==
    IF dist < MAX_STATIC_REACH * FX
    THEN [d_score |-> MulDiv(dist, 20, MAX_STATIC_REACH), dyn |-> 0]
    ELSE IF dist <= MAX_DYNAMIC_REACH * FX
    THEN [d_score |-> 20 * FX + MulDiv(dist - MAX_STATIC_REACH * FX, 30,
                                       MAX_DYNAMIC_REACH - MAX_STATIC_REACH),
          dyn |-> 5]
    ELSE [d_score |-> 50 * FX, dyn |-> 10]

ReachScore(dist) ==
    IF dist <= MAX_STATIC_REACH * FX
    THEN [d_score |-> MulDiv(dist, 20, MAX_STATIC_REACH), dyn |-> 0]
    ELSE IF dist <= MAX_DYNAMIC_REACH * FX
    THEN [d_score |-> 20 * FX + MulDiv(dist - MAX_STATIC_REACH * FX, 30,
                                       MAX_DYNAMIC_REACH - MAX_STATIC_REACH),
          dyn |-> 5]
    ELSE [d_score |-> 50 * FX, dyn |-> 10]

\* mod, times 10
TypeModifier(t1, t2) ==
    IF t1 = t2 /\ t2 = "foothold" THEN 13
    ELSE IF t1 = t2 /\ t2 = "handhold" THEN 15
    ELSE 10

\* assess_move_difficulty, with the scores it adds up
assess_move_difficulty(dist, ang, t1, t2, height_diff, wall_angle) ==
    LET reach   == ReachScore(dist)
        a_score == MulDiv(ang, 20, 180)
        mod10   == TypeModifier(t1, t2)
        h_score == MulDiv(height_diff, 20, 200)
        w_score == MulDiv(wall_angle, 15, 45)
    IN  [d_score |-> reach.d_score, dyn |-> reach.dyn, a_score |-> a_score,
         mod10 |-> mod10, h_score |-> h_score, w_score |-> w_score,
         value |-> ((reach.d_score + a_score) * mod10) \div 10
                    + h_score + w_score + reach.dyn * FX]

\* list.sort(key=...): stable, ascending
RECURSIVE InsertByKey(_, _, _)
InsertByKey(Key(_), sorted, h) ==
    IF sorted = <<>> THEN <<h>>
    ELSE IF Key(sorted[Len(sorted)]) <= Key(h) THEN Append(sorted, h)
    ELSE Append(InsertByKey(Key, SubSeq(sorted, 1, Len(sorted) - 1), h),
                sorted[Len(sorted)])

RECURSIVE SortByKey(_, _)
SortByKey(Key(_), seq) ==
    IF seq = <<>> THEN <<>>
    ELSE InsertByKey(Key, SortByKey(Key, SubSeq(seq, 1, Len(seq) - 1)), seq[Len(seq)])

(* A metadata entry: kind "graded" carries center, hold_type and           *)
(* hold_grade; "ungraded" carries the center only; "nocenter" carries      *)
(* hold_type and hold_grade but no center.                                 *)
IsGradedEntry(e) == e.kind = "graded"

RECURSIVE BuildHolds(_)
BuildHolds(meta) ==
    IF meta = <<>> THEN <<>>
    ELSE LET rest == BuildHolds(SubSeq(meta, 1, Len(meta) - 1))
             e    == meta[Len(meta)]
         IN  IF IsGradedEntry(e)
             THEN Append(rest, [center |-> e.center, grade |-> e.grade, type |-> e.type])
             ELSE rest

\* start_hold in metadata; start_hold 0 is None, an index beyond the
\* metadata is a name that is not one of its keys
StartInMetadata(req) == req.start_hold \in 1..Len(req.meta)

\* the sort key without a start hold: h['center'][1]
HeightKey_x(h) == h.center[1]

HeightKey(h) == h.center[2]

\* lines 92-97
SortHolds(req, holds) ==
    IF StartInMetadata(req)
    THEN LET base == req.meta[req.start_hold].center
             key(h) == calculate_distance(base, h.center)
         IN  SortByKey(key, holds)
    ELSE SortByKey(HeightKey, holds)

\* hold_diff = avg_hold * (25 / 10)
HoldDiff_inverted(holds) ==
    LET g(i) == holds[i].grade
        avg_hold == (SumOver(g, 1, Len(holds)) * FX) \div Len(holds)
    IN  ((10 * FX - avg_hold) * 25) \div 10

HoldDiff(holds) ==
    LET g(i) == holds[i].grade
        avg_hold == (SumOver(g, 1, Len(holds)) * FX) \div Len(holds)
    IN  (avg_hold * 25) \div 10

\* the pair scored with its height measured from the pair's own first hold
MovePair_from_previous(holds, i, wall_angle) ==
    LET h1 == holds[i]
        h2 == holds[i + 1]
        dist == calculate_distance(h1.center, h2.center)
        ang  == calculate_angle(h1.center, h2.center)
        dy   == h2.center[2] - h1.center[2]
        height == IF dy > 0 THEN ToCm(dy) ELSE 0
    IN  assess_move_difficulty(dist, ang, h1.type, h2.type, height, wall_angle)

\* the pair (holds[i], holds[i+1]) of the movement loop, lines 105-110
MovePair(holds, i, wall_angle) ==
    LET h1 == holds[i]
        h2 == holds[i + 1]
        dist == calculate_distance(h1.center, h2.center)
        ang  == calculate_angle(h1.center, h2.center)
        dy   == h2.center[2] - holds[1].center[2]
        height == IF dy > 0 THEN ToCm(dy) ELSE 0
    IN  assess_move_difficulty(dist, ang, h1.type, h2.type, height, wall_angle)

\* move_diff, lines 104-112
MoveDiff(pairs) ==
    LET v(i) == pairs[i].value
    IN  IF Len(pairs) = 0 THEN 0
        ELSE ((SumOver(v, 1, Len(pairs)) \div Len(pairs)) * 60) \div 100

NoHolds_never(holds) == FALSE

\* if not holds:
NoHolds(holds) == holds = <<>>

NoResp == [status |-> 0]
ErrorResp == [status |-> 500]
\* the keys uuid4 draws for the two requests
ImgKey == "history/uuid-r.jpg"
ImgKeyQ == "history/uuid-q.jpg"

\* the response body of a scored route, with the terms behind the total
ScoredResp(sorted, pairs, hold_diff, move_diff) ==
    [status |-> 200, grade |-> VGrade(hold_diff + move_diff), numeric |-> TRUE,
     total |-> hold_diff + move_diff, holds |-> sorted, pairs |-> pairs,
     hold_diff |-> hold_diff, move_diff |-> move_diff]

\* total = hold_diff + move_diff, lines 99-114
ScorePairs(sorted, pairs) ==
    ScoredResp(sorted, pairs, HoldDiff(sorted), MoveDiff(pairs))

\* the movement loop over consecutive holds, lines 104-110
MovePairs(sorted, wall_angle) ==
    [i \in 1..(Len(sorted) - 1) |-> MovePair(sorted, i, wall_angle)]

ScoreSorted(sorted, wall_angle) == ScorePairs(sorted, MovePairs(sorted, wall_angle))

\* lines 85-116 on the list of graded holds
ScoreHolds(req, holds) ==
    IF NoHolds(holds)
    THEN [status |-> 200, grade |-> "N/A", numeric |-> FALSE]
    ELSE IF StartInMetadata(req) /\ req.meta[req.start_hold].kind = "nocenter"
    THEN ErrorResp          \* KeyError: 'center'
    ELSE IF Len(holds) = 0
    THEN ErrorResp          \* ZeroDivisionError in avg_hold
    ELSE ScoreSorted(SortHolds(req, holds), req.wall_angle)

\* lambda_handler of grade_route_lambda.py up to the response
RouteResult(req) == ScoreHolds(req, BuildHolds(req.meta))

Scored(resp) == resp.status = 200 /\ resp.numeric

\* lambda_handler of grade_route_lambda.py: the whole request
GradeRoute ==
    /\ rresp = NoResp
    /\ rresp' = RouteResult(rreq)
    /\ IF Scored(rresp')
       THEN /\ rs3' = IF rreq.full_image THEN rs3 \cup {ImgKey} ELSE rs3
            /\ rddb' = rddb \cup {[id |-> ImgKey, grade |-> rresp'.grade,
                                   s3_key |-> ImgKey]}
       ELSE UNCHANGED <<rs3, rddb>>
    /\ UNCHANGED <<rreq, qreq, qresp>>
    /\ UNCHANGED <<fvars, hvars, bvars, mvars, cvars>>

\* the same handler on the second request
GradeRouteQ ==
    /\ qresp = NoResp
    /\ qresp' = RouteResult(qreq)
    /\ IF Scored(qresp')
       THEN /\ rs3' = IF qreq.full_image THEN rs3 \cup {ImgKeyQ} ELSE rs3
            /\ rddb' = rddb \cup {[id |-> ImgKeyQ, grade |-> qresp'.grade,
                                   s3_key |-> ImgKeyQ]}
       ELSE UNCHANGED <<rs3, rddb>>
    /\ UNCHANGED <<rreq, rresp, qreq>>
    /\ UNCHANGED <<fvars, hvars, bvars, mvars, cvars>>

\* the grade lookup of line 116 on its own
Lookup ==
    /\ blabel = <<>>
    /\ blabel' = <<VGrade(btotal[1]), VGrade(btotal[2])>>
    /\ UNCHANGED btotal
    /\ UNCHANGED <<fvars, hvars, rvars, mvars, cvars>>

----------------------------------------------------------------------------
(* contour_lambda.py (both copies): apply_line_filter.  A mask is a        *)
(* sequence of rows, each a function from the columns 0 .. width-1 to 0 or *)
(* 255.                                                                    *)

\* where a slice bound k falls in an axis of length n (numpy basic slicing):
\* a negative bound counts from the end, and both are clipped to 0 .. n
SliceBound(k, n) == IF k < 0 THEN Max(0, k + n) ELSE Min(k, n)

\* line_mask = zeros(mask.shape); line_mask[:, left:right] = 255
LineMask(width, left, right) ==
    [c \in 0..(width - 1) |->
        IF SliceBound(left, width) <= c /\ c < SliceBound(right, width)
        THEN 255 ELSE 0]

\* cv2.bitwise_and of two mask values
BitwiseAnd(a, b) == IF a = 255 /\ b = 255 THEN 255 ELSE 0

apply_line_filter(mask, left_line, right_line) ==
    LET left  == Min(left_line, right_line)
        right == Max(left_line, right_line)
    IN  [r \in 1..Len(mask) |->
            LET line_mask == LineMask(Cardinality(DOMAIN mask[r]), left, right)
            IN  [c \in DOMAIN mask[r] |-> BitwiseAnd(mask[r][c], line_mask[c])]]

\* mask = apply_line_filter(mask, left_line, right_line)
ApplyLineFilter ==
    /\ mout = <<>>
    /\ mout' = apply_line_filter(mmask, mleft, mright)
    /\ UNCHANGED <<mmask, mleft, mright>>
    /\ UNCHANGED <<fvars, hvars, rvars, bvars, cvars>>

----------------------------------------------------------------------------
(* contour_lambda.py: lambda_handler, both copies.  A request carries what *)
(* either transport (multipart form, JSON body) delivers:                  *)
(*   body    "none" or "ok": the event's body                              *)
(*   ctype   whether a content-type header came with it                    *)
(*   image   "absent", "undecodable" (bytes that are no image) or "ok"     *)
(*   left, right, cx, cy   form fields [kind, val]: kind is "absent",       *)
(*           "text" (not an integer literal) or "int" with the value val   *)
(*   ref     whether reference_color_hsv is in the JSON body               *)
(*   match   for a decodable image, the combined LAB-and-HSV colour mask   *)
(*           of its pixels (lines 120-132): its shape is the image's       *)
(*   tmp_ok  whether the host can create a temporary directory             *)

\* MORPH_KERNEL = np.ones((7, 7)): a pixel's neighbours are those no more
\* than MORPH_RADIUS rows and columns away
MORPH_RADIUS == 3

\* min_area, max_area of lib/handlers/contour_lambda.py
min_area == 10
max_area == 99999

\* body.get('min_area', 100), body.get('max_area', 5000) of the docker copy
min_area_default == 100
max_area_default == 5000

Near(r, c, r2, c2) == Abs(r - r2) <= MORPH_RADIUS /\ Abs(c - c2) <= MORPH_RADIUS

\* cv2.dilate with MORPH_KERNEL: pixels beyond the border do not count
Dilate(m) ==
    [r \in 1..Len(m) |-> [c \in DOMAIN m[r] |->
        IF \E r2 \in 1..Len(m) : \E c2 \in DOMAIN m[r2] :
                Near(r, c, r2, c2) /\ m[r2][c2] = 255
        THEN 255 ELSE 0]]

\* cv2.erode with MORPH_KERNEL: pixels beyond the border do not count
Erode(m) ==
    [r \in 1..Len(m) |-> [c \in DOMAIN m[r] |->
        IF \A r2 \in 1..Len(m) : \A c2 \in DOMAIN m[r2] :
                Near(r, c, r2, c2) => m[r2][c2] = 255
        THEN 255 ELSE 0]]

\* cv2.morphologyEx(mask, cv2.MORPH_CLOSE, MORPH_KERNEL)
MorphClose(m) == Erode(Dilate(m))

\* cv2.dilate(mask, MORPH_KERNEL, iterations=3)
Dilate3(m) == Dilate(Dilate(Dilate(m)))

\* the mask the handler searches for contours
FinalMask(match, left_line, right_line) ==
    Dilate3(MorphClose(apply_line_filter(match, left_line, right_line)))

\* the pixels of a mask that are set, as <<column, row>>
SetPixels(m) == {p \in (DOMAIN m[1]) \X (1..Len(m)) : m[p[2]][p[1]] = 255}

\* the corners of the box around the pixels P, as CHAIN_APPROX_SIMPLE lists
\* the outline of a filled rectangle
BoxContour(P) ==
    <<<<SetMin({p[1] : p \in P}), SetMin({p[2] : p \in P})>>,
      <<SetMin({p[1] : p \in P}), SetMax({p[2] : p \in P})>>,
      <<SetMax({p[1] : p \in P}), SetMax({p[2] : p \in P})>>,
      <<SetMax({p[1] : p \in P}), SetMin({p[2] : p \in P})>>>>

\* cv2.findContours(mask, RETR_EXTERNAL, CHAIN_APPROX_SIMPLE) on a final
\* mask.  Closing and three dilations join everything that is less than
\* 6 * MORPH_RADIUS pixels apart and fill an image of up to 3 * MORPH_RADIUS
\* + 1 rows and columns whole, so the set pixels of such a mask are one
\* filled rectangle.
FindContours(m) == IF SetPixels(m) = {} THEN <<>> ELSE <<BoxContour(SetPixels(m))>>

\* if area < min_area or area > max_area: continue
Qualifies(contour, lo, hi) ==
    2 * lo <= ContourArea2(contour) /\ ContourArea2(contour) <= 2 * hi

\* len(metadata): the contours that pass the area filter
ContourCount(contours, lo, hi) ==
    Cardinality({k \in 1..Len(contours) : Qualifies(contours[k], lo, hi)})

\* except Exception as e: statusCode 500, body {"error": str(e)}
ContourError(msg) == [status |-> 500, error |-> msg, mask |-> <<>>, contour_count |-> 0]

\* the success response: statusCode 200, contour_count = len(metadata)
ContourSuccess(mask, count) ==
    [status |-> 200, error |-> "", mask |-> mask, contour_count |-> count]

IsText(f) == f.kind = "text"
IsAbsent(f) == f.kind = "absent"

\* 0 <= color_click_x < image.shape[1] and 0 <= color_click_y < image.shape[0]
ClickInBounds(req) ==
    /\ 0 <= req.cx.val /\ req.cx.val < Cardinality(DOMAIN req.match[1])
    /\ 0 <= req.cy.val /\ req.cy.val < Len(req.match)

\* whether the lib/handlers copy gets as far as cv2.imdecode (lines 44-93)
LibReachesDecode(req) ==
    /\ req.body # "none"
    /\ req.ctype
    /\ \A f \in {req.left, req.right, req.cx, req.cy} : ~IsText(f) /\ ~IsAbsent(f)
    /\ req.image # "absent"

\* lines 137-201 of the lib/handlers copy
LibExtract(req, mask) ==
    IF ~req.tmp_ok
    THEN ContourError("tempfile: no usable temporary directory")
    ELSE ContourSuccess(mask, ContourCount(FindContours(mask), min_area, max_area))

\* lambda_handler of lib/handlers/contour_lambda.py up to the response
LibResult(req) ==
    IF req.body = "none" THEN ContourError("No body found in event!")
    ELSE IF ~req.ctype THEN ContourError("No content-type header found!")
    ELSE IF \E f \in {req.left, req.right, req.cx, req.cy} : IsText(f)
    THEN ContourError("invalid literal for int()")
    ELSE IF req.image = "absent"
            \/ \E f \in {req.left, req.right, req.cx, req.cy} : IsAbsent(f)
    THEN ContourError("Missing one or more required fields")
    ELSE IF req.image = "undecodable"
    THEN ContourError("cv2.imdecode failed!")
    ELSE IF ~ClickInBounds(req)
    THEN ContourError("Click coordinates out of bounds")
    ELSE LibExtract(req, FinalMask(req.match, req.left.val, req.right.val))

\* lines 86-135 of the lambda-docker copy
DockerExtract(req, mask) ==
    IF ~req.tmp_ok
    THEN ContourError("tempfile: no usable temporary directory")
    ELSE ContourSuccess(mask, ContourCount(FindContours(mask),
                                           min_area_default, max_area_default))

\* lambda_handler of lambda-docker/contour/contour_lambda.py up to the
\* response; without a string body the event itself is the payload
DockerResult(req) ==
    IF req.image = "absent" THEN ContourError("KeyError: imageBase64")
    ELSE IF ~req.ref THEN ContourError("KeyError: reference_color_hsv")
    ELSE IF IsAbsent(req.left) THEN ContourError("KeyError: left_line")
    ELSE IF IsText(req.left) THEN ContourError("invalid literal for int()")
    ELSE IF IsAbsent(req.right) THEN ContourError("KeyError: right_line")
    ELSE IF IsText(req.right) THEN ContourError("invalid literal for int()")
    ELSE IF req.image = "undecodable"
    THEN ContourError("cv2.error: cvtColor")   \* normalize_lab(None)
    ELSE DockerExtract(req, FinalMask(req.match, req.left.val, req.right.val))

\* lambda_handler of lib/handlers/contour_lambda.py: the whole request
ContourLib ==
    /\ cresp = NoResp
    /\ cresp' = LibResult(creq)
    /\ cdecodes' = [cdecodes EXCEPT !.lib = IF LibReachesDecode(creq) THEN @ + 1 ELSE @]
    /\ UNCHANGED <<creq, dresp>>
    /\ UNCHANGED <<fvars, hvars, rvars, bvars, mvars>>

\* lambda_handler of lambda-docker/contour/contour_lambda.py: the whole request
ContourDocker ==
    /\ dresp = NoResp
    /\ dresp' = DockerResult(creq)
    /\ cdecodes' = [cdecodes EXCEPT !.docker = IF creq.image # "absent" THEN @ + 1 ELSE @]
    /\ UNCHANGED <<creq, cresp>>
    /\ UNCHANGED <<fvars, hvars, rvars, bvars, mvars>>

----------------------------------------------------------------------------
(* The feature harness: classify_hold and compute_hold_grade applied to    *)
(* inputs drawn from a grid of finite, non-negative values that straddles  *)
(* every threshold of the two functions.                                   *)

MaxUnits == 3          \* circularity, convexity, aspect ratio up to MaxUnits
MaxAreaSteps == 4      \* area up to MaxAreaSteps * 50 cm2

UnitVals ==
    {0, 1, FX \div 2, FX \div 2 + 1, (7 * FX) \div 10 - 1, (7 * FX) \div 10,
     (13 * FX) \div 10, (13 * FX) \div 10 + 1}
    \cup {k * FX : k \in 1..MaxUnits}

AreaVals ==
    {0, SIZE_THRESHOLD * FX - 1, SIZE_THRESHOLD * FX, SIZE_THRESHOLD * FX + 1,
     (EXPECTED_AREA_MIN_C * FX) \div 100, (EXPECTED_AREA_MAX_C * FX) \div 100}
    \cup {k * 50 * FX : k \in 1..MaxAreaSteps}

RouteIdle ==
    /\ rreq = [meta |-> <<>>, wall_angle |-> 0, start_hold |-> 0, full_image |-> FALSE]
    /\ rresp = NoResp
    /\ qreq = rreq
    /\ qresp = NoResp
    /\ rs3 = {}
    /\ rddb = {}

BucketIdle ==
    /\ btotal = <<0, 0>>
    /\ blabel = <<>>

MaskIdle ==
    /\ mmask = <<>>
    /\ mleft = 0
    /\ mright = 0
    /\ mout = <<>>

HoldIdle ==
    /\ hbatch = <<>>
    /\ hstatus = 0
    /\ hupdated = <<>>
    /\ hfeat = <<>>

FeatIdle ==
    /\ fpc = "idle"
    /\ fin = [area |-> 0, circ |-> 0, conv |-> 0, ar |-> 0]
    /\ ftype = "none"
    /\ fgtype = "none"
    /\ fgrade = 0

ContourIdle ==
    /\ creq = <<>>
    /\ cresp = NoResp
    /\ dresp = NoResp
    /\ cdecodes = [lib |-> 0, docker |-> 0]

FeatInit ==
    /\ ContourIdle
    /\ HoldIdle
    /\ RouteIdle
    /\ BucketIdle
    /\ MaskIdle
    /\ fpc = "in"
    /\ fin \in [area : AreaVals, circ : UnitVals, conv : UnitVals, ar : UnitVals]
    /\ ftype = "none"
    /\ fgtype = "none"
    /\ fgrade = 0

Classify ==
    /\ fpc = "in"
    /\ ftype' = classify_hold(fin.area, fin.circ, fin.conv, fin.ar)
    /\ fpc' = "classified"
    /\ UNCHANGED <<fin, fgtype, fgrade>>
    /\ UNCHANGED <<hvars, rvars, bvars, mvars, cvars>>

Grade ==
    /\ fpc = "classified"
    /\ \E t \in HoldTypes :
          /\ fgtype' = t
          /\ fgrade' = compute_hold_grade(fin.area, fin.circ, fin.conv, fin.ar, t)
    /\ fpc' = "graded"
    /\ UNCHANGED <<fin, ftype>>
    /\ UNCHANGED <<hvars, rvars, bvars, mvars, cvars>>

FeatNext == Classify \/ Grade

SpecFeat == FeatInit /\ [][FeatNext]_vars

----------------------------------------------------------------------------
(* C1: compute_hold_grade returns an integer g with 1 <= g <= 10 for every *)
(* finite, non-negative area, circularity, convexity and aspect_ratio and  *)
(* for either hold type.                                                   *)
C1_GradeInRange ==
    fpc = "graded" => fgrade \in 1..10

\* a graded input whose unclamped total lies below 1 (the lower clamp acts)
C1_Witness ==
    /\ fpc = "graded"
    /\ GradeTotal(fin.area, fin.circ, fin.conv, fin.ar, fgtype) < FX \div 2
    /\ fgrade = 1

(* C2: classify_hold returns "foothold" exactly when the rule score is     *)
(* >= 2, the score being +2 if area_cm2 < 15 else -1, +1 if circularity >  *)
(* 0.5, +1 if convexity < 0.7, +1 if 0.7 <= aspect_ratio <= 1.3.           *)
C2_RuleScore ==
    (IF fin.area < 15 * FX THEN 2 ELSE 0 - 1)
  + (IF fin.circ * 10 > 5 * FX THEN 1 ELSE 0)
  + (IF fin.conv * 10 < 7 * FX THEN 1 ELSE 0)
  + (IF fin.ar * 10 >= 7 * FX /\ fin.ar * 10 <= 13 * FX THEN 1 ELSE 0)

C2_ClassifyByScore ==
    fpc # "in" =>
        /\ ftype \in HoldTypes
        /\ (ftype = "foothold") <=> (C2_RuleScore >= 2)

\* an input of exactly 15 cm2 whose other three rules all fire: score 2
C2_Witness ==
    /\ fpc = "classified"
    /\ fin.area = 15 * FX
    /\ C2_RuleScore = 2
    /\ ftype = "foothold"

----------------------------------------------------------------------------
(* The hold-grading requests: batches of at most MaxBatch crops, each crop *)
(* missing, undecodable, black (no contour) or showing one of the shapes   *)
(* below, alone or beside a one-pixel speck.  findContours with            *)
(* CHAIN_APPROX_SIMPLE yields polygons whose edges run along the rows, the *)
(* columns or the diagonals of the pixel grid.                             *)

MaxBatch == 2
MaxSide == 3           \* sides of SideStep .. MaxSide * SideStep pixels
SideStep == 20

Sides == {k * SideStep : k \in 1..MaxSide}

RectContour(w, h) == <<<<0, 0>>, <<w, 0>>, <<w, h>>, <<0, h>>>>
LContour(w, h, n) ==
    <<<<0, 0>>, <<w, 0>>, <<w, h - n>>, <<w - n, h - n>>, <<w - n, h>>, <<0, h>>>>
DiamondContour(k) == <<<<k, 0>>, <<2 * k, k>>, <<k, 2 * k>>, <<0, k>>>>
SpeckContour == <<<<0, 0>>>>

Shapes ==
    {RectContour(w, h) : w \in Sides, h \in Sides}
    \cup {LContour(w, h, SideStep \div 2) : w \in Sides, h \in Sides}
    \cup {DiamondContour(k) : k \in Sides}
    \cup {SpeckContour}

Crops ==
    {[img |-> "missing", cnts |-> <<>>], [img |-> "bad", cnts |-> <<>>],
     [img |-> "ok", cnts |-> <<>>]}
    \cup {[img |-> "ok", cnts |-> <<s>>] : s \in Shapes}
    \cup {[img |-> "ok", cnts |-> <<SpeckContour, DiamondContour(k)>>] : k \in Sides}
    \cup {[img |-> "ok", cnts |-> <<RectContour(k, k), SpeckContour>>] : k \in Sides}

Batches == UNION {[1..n -> Crops] : n \in 0..MaxBatch}

\* a request is pending: its event is any batch
HoldInit ==
    /\ ContourIdle
    /\ hbatch \in Batches
    /\ hstatus = 0
    /\ hupdated = <<>>
    /\ hfeat = <<>>
    /\ FeatIdle
    /\ RouteIdle
    /\ BucketIdle
    /\ MaskIdle

HoldNext == GradeHolds(hbatch)

SpecHold == HoldInit /\ [][HoldNext]_vars

IsConvexContour(c) == ContourArea2(c) = ContourArea2(ConvexHull(c))

(* C3: the convexity computed for a hold in the grading pass is the        *)
(* selected contour's area divided by its convex hull's area, both in the  *)
(* same unit: 1.0 for every fully convex contour of positive area, and 0   *)
(* when the hull area is 0.                                                *)
C3_ConvexityIsAreaRatio ==
    \A i \in DOMAIN hfeat :
        LET c == hfeat[i].contour
        IN  /\ ContourArea2(ConvexHull(c)) = 0 => hfeat[i].conv = 0
            /\ (IsConvexContour(c) /\ ContourArea2(c) > 0) => hfeat[i].conv = FX

HasContour(crop) == crop.img = "ok" /\ crop.cnts # <<>>
NoContour(crop) == crop.img = "ok" /\ crop.cnts = <<>>

(* C10: a hold whose crop yields no contour is skipped (absent from        *)
(* updated_metadata) and that is not fatal to the batch: the request fails *)
(* only on a crop that does not decode, and otherwise the response is a    *)
(* success in which every hold whose crop yields a contour appears with    *)
(* its hold_type and hold_grade.                                           *)
C10_NoContourSkipped ==
    hstatus # 0 =>
        /\ hstatus = 500 <=> (\E i \in 1..Len(hbatch) : Raises(hbatch[i]))
        /\ hstatus # 500 =>
            /\ hstatus = 200
            /\ \A i \in 1..Len(hbatch) :
                /\ NoContour(hbatch[i]) => i \notin DOMAIN hupdated
                /\ HasContour(hbatch[i]) =>
                    /\ i \in DOMAIN hupdated
                    /\ hupdated[i].hold_type \in HoldTypes
                    /\ hupdated[i].hold_grade \in 1..10

\* a successful batch whose first crop has no contour and whose second has one
C10_Witness ==
    /\ hstatus = 200
    /\ Len(hbatch) >= 2
    /\ NoContour(hbatch[1])
    /\ HasContour(hbatch[2])
    /\ DOMAIN hupdated = {2}

----------------------------------------------------------------------------
(* The V-grade lookup on its own: two totals around every bound of the     *)
(* table, negative ones included.                                          *)

MaxTotal == 80

TotalVals == {k * FX + e : k \in (0 - 2)..MaxTotal, e \in {0 - 1, 0, 1}}

BucketInit ==
    /\ ContourIdle
    /\ btotal \in TotalVals \X TotalVals
    /\ blabel = <<>>
    /\ FeatIdle
    /\ HoldIdle
    /\ RouteIdle
    /\ MaskIdle

BucketNext == Lookup

SpecBucket == BucketInit /\ [][BucketNext]_vars

LabelOrder == <<"V0", "V1", "V2", "V3", "V4", "V5", "V6", "V7", "V8", "V9+">>
Rank(vg) == CHOOSE i \in 1..Len(LabelOrder) : LabelOrder[i] = vg

\* the intervals [lo, hi) of the table that contain t
C4_Containing(t) ==
    {i \in 1..Len(V_GRADE_MAPPING) :
        /\ V_GRADE_MAPPING[i].lo * FX <= t
        /\ V_GRADE_MAPPING[i].inf \/ t < V_GRADE_MAPPING[i].hi * FX}

(* C4: the bucket table partitions [0, infinity) into contiguous half-open *)
(* intervals [lo, hi): every total >= 0 lies in exactly one interval and   *)
(* gets that interval's label (V0 .. V9+), so the label is non-decreasing  *)
(* in the total; every negative total gets V0.                             *)
C4_BucketPartition ==
    /\ V_GRADE_MAPPING[1].lo = 0
    /\ V_GRADE_MAPPING[Len(V_GRADE_MAPPING)].inf
    /\ \A i \in 1..(Len(V_GRADE_MAPPING) - 1) :
          /\ ~V_GRADE_MAPPING[i].inf
          /\ V_GRADE_MAPPING[i].lo < V_GRADE_MAPPING[i].hi
          /\ V_GRADE_MAPPING[i].hi = V_GRADE_MAPPING[i + 1].lo
    /\ \A i \in 1..Len(V_GRADE_MAPPING) : V_GRADE_MAPPING[i].vg = LabelOrder[i]
    /\ blabel # <<>> =>
        /\ \A k \in 1..2 :
              IF btotal[k] >= 0
              THEN /\ Cardinality(C4_Containing(btotal[k])) = 1
                   /\ \A i \in C4_Containing(btotal[k]) :
                          blabel[k] = V_GRADE_MAPPING[i].vg
              ELSE blabel[k] = "V0"
        /\ (0 <= btotal[1] /\ btotal[1] <= btotal[2]) =>
              Rank(blabel[1]) <= Rank(blabel[2])

\* a total on the bound between two intervals gets the upper one's label,
\* the total just below it the lower one's
C4_Witness ==
    /\ blabel # <<>>
    /\ btotal[1] = 10 * FX - 1
    /\ btotal[2] = 10 * FX
    /\ blabel = <<"V0", "V1">>

----------------------------------------------------------------------------
(* The route requests: at most MaxHolds metadata entries with centers on a *)
(* 30 cm raster (163.2 px), so that a reach of exactly 90 cm, one in the   *)
(* dynamic tier and one beyond it all occur.                               *)

MaxHolds == 3

\* 30 cm in pixels
CellPx == (30 * PIXEL_TO_CM_DEN * FX) \div PIXEL_TO_CM_NUM

Centers ==
    {<<c[1] * CellPx, c[2] * CellPx>> :
        c \in {<<0, 0>>, <<0, 1>>, <<0, 3>>, <<1, 3>>, <<2, 0>>}}

GradedEntries(grades) ==
    {[kind |-> "graded", center |-> c, type |-> t, grade |-> g] :
        c \in Centers, t \in HoldTypes, g \in grades}

OtherEntries ==
    {[kind |-> "ungraded", center |-> <<0, CellPx>>, type |-> "none", grade |-> 0],
     [kind |-> "nocenter", center |-> <<0, 0>>, type |-> "handhold", grade |-> 5]}

RouteEntries == GradedEntries({5}) \cup OtherEntries

WallAngles == {DEFAULT_WALL_ANGLE * FX, 45 * FX}

RouteRequests ==
    [meta : UNION {[1..n -> RouteEntries] : n \in 0..MaxHolds},
     wall_angle : WallAngles,
     start_hold : 0..(MaxHolds + 1),
     full_image : BOOLEAN]

RouteInit ==
    /\ ContourIdle
    /\ rreq \in RouteRequests
    /\ rresp = NoResp
    /\ qreq = [meta |-> <<>>, wall_angle |-> 0, start_hold |-> 0, full_image |-> FALSE]
    /\ qresp = NoResp
    /\ rs3 = {}
    /\ rddb = {}
    /\ FeatIdle
    /\ HoldIdle
    /\ BucketIdle
    /\ MaskIdle

RouteNext == GradeRoute

SpecRoute == RouteInit /\ [][RouteNext]_vars

\* the holds the grader is to score: the entries that carry center,
\* hold_type and hold_grade, as {center, grade, type}
C7_AsHold(e) == [center |-> e.center, grade |-> e.grade, type |-> e.type]
C7_SameHolds(req, hs) ==
    /\ Len(hs) = Cardinality({i \in 1..Len(req.meta) : req.meta[i].kind = "graded"})
    /\ \A k \in 1..Len(hs) :
          Cardinality({i \in 1..Len(hs) : hs[i] = hs[k]})
            = Cardinality({i \in 1..Len(req.meta) :
                             /\ req.meta[i].kind = "graded"
                             /\ C7_AsHold(req.meta[i]) = hs[k]})

\* the squared planar distance between two centers, in raster cells
\* (30 cm each): ordered as the distance in cm is
C7_Dist2(p, q) ==
    ((q[1] - p[1]) \div CellPx) * ((q[1] - p[1]) \div CellPx)
  + ((q[2] - p[2]) \div CellPx) * ((q[2] - p[2]) \div CellPx)

(* C7: the holds are ordered before scoring: if a start hold is designated *)
(* (start_hold is a key of the metadata) ascending in planar distance from *)
(* the start hold's center, otherwise ascending in the raw vertical pixel  *)
(* coordinate; either way the sequence is a permutation of the graded      *)
(* holds.                                                                  *)
C7_Ordering ==
    (rresp # NoResp /\ Scored(rresp)) =>
        LET hs == rresp.holds
        IN  /\ C7_SameHolds(rreq, hs)
            /\ IF rreq.start_hold \in 1..Len(rreq.meta)
               THEN LET base == rreq.meta[rreq.start_hold].center
                    IN  \A i \in 1..Len(hs) : \A j \in i..Len(hs) :
                            C7_Dist2(base, hs[i].center) <= C7_Dist2(base, hs[j].center)
               ELSE \A i \in 1..Len(hs) : \A j \in i..Len(hs) :
                            hs[i].center[2] <= hs[j].center[2]

\* three holds, a start hold, and an order the sort had to change: the
\* hold the metadata lists first is further from the start than the last
C7_Witness ==
    /\ rresp # NoResp
    /\ Scored(rresp)
    /\ Len(rreq.meta) = 3
    /\ \A i \in 1..3 : rreq.meta[i].kind = "graded"
    /\ rreq.start_hold = 2
    /\ C7_Dist2(rreq.meta[2].center, rreq.meta[1].center)
         > C7_Dist2(rreq.meta[2].center, rreq.meta[3].center)
    /\ rresp.holds[1] = C7_AsHold(rreq.meta[2])
    /\ rresp.holds[3] = C7_AsHold(rreq.meta[1])

\* without a start hold, three holds listed top-down come out bottom-up
C7_WitnessNoStart ==
    /\ rresp # NoResp
    /\ Scored(rresp)
    /\ rreq.start_hold = 0
    /\ Len(rresp.holds) = 3
    /\ rreq.meta[1].center[2] > rreq.meta[3].center[2]

(* C8: with no holds to score (the metadata is empty or no entry carries   *)
(* center, hold_type and hold_grade) the response is a success whose grade *)
(* is the sentinel 'N/A' and which carries no numeric total; it is not an  *)
(* error response.                                                         *)
C8_NoHoldsNotApplicable ==
    (rresp # NoResp /\ \A i \in 1..Len(rreq.meta) : rreq.meta[i].kind # "graded") =>
        /\ rresp.status = 200
        /\ rresp.grade = "N/A"
        /\ ~rresp.numeric

\* metadata that has entries, none of them gradable, and a start hold
\* whose entry has no center
C8_Witness ==
    /\ rresp # NoResp
    /\ Len(rreq.meta) >= 1
    /\ \A i \in 1..Len(rreq.meta) : rreq.meta[i].kind # "graded"
    /\ rreq.start_hold = 1
    /\ rreq.meta[1].kind = "nocenter"
    /\ rresp.status = 200
    /\ rresp.grade = "N/A"

\* the scenario of C5: the route is two handholds at (0, 0) and (0, d), d
\* the pixel equivalent of 90 cm, scored in that order, wall_angle 20
C5_Scenario ==
    /\ rresp # NoResp
    /\ Scored(rresp)
    /\ rreq.wall_angle = 20 * FX
    /\ Len(rresp.holds) = 2
    /\ rresp.holds[1].center = <<0, 0>>
    /\ rresp.holds[2].center[1] = 0
    /\ rresp.holds[2].center[2] * PIXEL_TO_CM_NUM = 90 * FX * PIXEL_TO_CM_DEN
    /\ rresp.holds[1].type = "handhold"
    /\ rresp.holds[2].type = "handhold"

\* height_score = max(0, 90 cm) / 200 * 20, wall_score = 20 / 45 * 15
C5_HeightScore == (90 * FX * 20) \div 200
C5_WallScore == (20 * FX * 15) \div 45

C5_PairIs(static_score, dynamic_bonus, angle_score, type_modifier10) ==
    LET p == rresp.pairs[1]
    IN  /\ p.d_score = static_score
        /\ p.dyn = dynamic_bonus
        /\ p.a_score = angle_score
        /\ p.mod10 = type_modifier10
        /\ p.h_score = C5_HeightScore
        /\ p.w_score = C5_WallScore
        /\ p.value = ((static_score + angle_score) * type_modifier10) \div 10
                       + C5_HeightScore + C5_WallScore + dynamic_bonus * FX

(* C5, as the spec states it: in that scenario the pair's difficulty is    *)
(* computed with static_score = 20, dynamic_bonus = 0, angle_score =       *)
(* 20/180*20 (about 2.22), type_modifier = 1.5 and equals (static_score +  *)
(* angle_score) * type_modifier + height_score + wall_score +              *)
(* dynamic_bonus.                                                          *)
C5_AsStated ==
    C5_Scenario => C5_PairIs(20 * FX, 0, (20 * FX * 20) \div 180, 15)

(* C5, amended: the angle of the move from (0, 0) to (0, d) is 90 degrees, *)
(* so angle_score = 90/180*20 = 10; the rest is as stated.                 *)
C5_Amended ==
    C5_Scenario => C5_PairIs(20 * FX, 0, 10 * FX, 15)

C5_Witness ==
    /\ C5_Scenario
    /\ rreq.start_hold = 0
    /\ rresp.pairs[1].value = 60666

----------------------------------------------------------------------------
(* Two requests that differ in the hold grades only. *)

MonoGrades == {1, 10}
MonoCenters == {<<0, 0>>, <<CellPx, 3 * CellPx>>}
MonoGeo == MonoCenters \X HoldTypes

MonoMeta(n, geo, g) ==
    [i \in 1..n |-> [kind |-> "graded", center |-> geo[i][1], type |-> geo[i][2],
                     grade |-> g[i]]]

MonoInit ==
    /\ ContourIdle
    /\ \E n \in 1..MaxHolds :
       \E geo \in [1..n -> MonoGeo] :
       \E g1 \in [1..n -> MonoGrades] :
       \E g2 \in [1..n -> MonoGrades] :
       \E s \in 0..1 :
          /\ rreq = [meta |-> MonoMeta(n, geo, g1), wall_angle |-> DEFAULT_WALL_ANGLE * FX,
                     start_hold |-> s, full_image |-> FALSE]
          /\ qreq = [meta |-> MonoMeta(n, geo, g2), wall_angle |-> DEFAULT_WALL_ANGLE * FX,
                     start_hold |-> s, full_image |-> FALSE]
    /\ rresp = NoResp
    /\ qresp = NoResp
    /\ rs3 = {}
    /\ rddb = {}
    /\ FeatIdle
    /\ HoldIdle
    /\ BucketIdle
    /\ MaskIdle

MonoNext == GradeRoute \/ GradeRouteQ

SpecMono == MonoInit /\ [][MonoNext]_vars

C9_GradeSum(req) ==
    LET g(i) == req.meta[i].grade
    IN  SumOver(g, 1, Len(req.meta))

C9_SameMovementInputs ==
    /\ Len(rreq.meta) = Len(qreq.meta)
    /\ \A i \in 1..Len(rreq.meta) :
          /\ rreq.meta[i].kind = "graded" /\ qreq.meta[i].kind = "graded"
          /\ rreq.meta[i].center = qreq.meta[i].center
          /\ rreq.meta[i].type = qreq.meta[i].type
    /\ rreq.start_hold = qreq.start_hold
    /\ rreq.wall_angle = qreq.wall_angle

(* C9: the route total is non-decreasing in the average hold grade: of two *)
(* hold lists with identical centers, types, start hold and wall angle     *)
(* (hence the same movement component) the one with the greater-or-equal   *)
(* mean grade has the greater-or-equal total, and its V-grade bucket is    *)
(* not lower.                                                              *)
C9_MonotoneInMeanGrade ==
    (/\ rresp # NoResp /\ qresp # NoResp
     /\ Scored(rresp) /\ Scored(qresp)
     /\ C9_SameMovementInputs
     /\ C9_GradeSum(rreq) >= C9_GradeSum(qreq)) =>
        /\ rresp.move_diff = qresp.move_diff
        /\ rresp.total >= qresp.total
        /\ Rank(rresp.grade) >= Rank(qresp.grade)

\* three holds, a strictly greater mean grade, and a higher bucket for it
C9_Witness ==
    /\ rresp # NoResp /\ qresp # NoResp
    /\ Scored(rresp) /\ Scored(qresp)
    /\ Len(rreq.meta) = 3
    /\ C9_GradeSum(rreq) > C9_GradeSum(qreq)
    /\ rresp.total > qresp.total
    /\ Rank(rresp.grade) > Rank(qresp.grade)

----------------------------------------------------------------------------
(* The band restriction on its own: every mask of MaskRows rows and        *)
(* MaskWidth columns, the two lines anywhere from MaskWidth + 1 columns    *)
(* left of the image to one column right of it.                            *)

MaskRows == 1
MaskWidth == 3

MaskInit ==
    /\ ContourIdle
    /\ mmask \in [1..MaskRows -> [0..(MaskWidth - 1) -> {0, 255}]]
    /\ mleft \in (0 - MaskWidth - 1)..(MaskWidth + 1)
    /\ mright \in (0 - MaskWidth - 1)..(MaskWidth + 1)
    /\ mout = <<>>
    /\ FeatIdle
    /\ HoldIdle
    /\ RouteIdle
    /\ BucketIdle

MaskNext == ApplyLineFilter

SpecMask == MaskInit /\ [][MaskNext]_vars

(* C6: for any integer left_line and right_line and any binary mask, after *)
(* band restriction a pixel at column c is 255 exactly when it was 255     *)
(* before and min(left, right) <= c < max(left, right); every pixel in a   *)
(* column outside that half-open band is 0.                                *)
C6_BandRestriction ==
    mout # <<>> =>
        \A r \in 1..Len(mmask) : \A c \in DOMAIN mmask[r] :
            LET inBand == Min(mleft, mright) <= c /\ c < Max(mleft, mright)
            IN  /\ mout[r][c] = 255 <=> (mmask[r][c] = 255 /\ inBand)
                /\ ~inBand => mout[r][c] = 0

\* the same, for lines that are not negative
C6_BandRestrictionNonNegative ==
    (mout # <<>> /\ mleft >= 0 /\ mright >= 0) =>
        \A r \in 1..Len(mmask) : \A c \in DOMAIN mmask[r] :
            LET inBand == Min(mleft, mright) <= c /\ c < Max(mleft, mright)
            IN  /\ mout[r][c] = 255 <=> (mmask[r][c] = 255 /\ inBand)
                /\ ~inBand => mout[r][c] = 0

----------------------------------------------------------------------------
(* The contour extractor: one request, handled once by each copy of the    *)
(* handler.  The image has ImgRows rows and ImgCols columns.               *)

ImgRows == 1
ImgCols == 2

Field(kind, val) == [kind |-> kind, val |-> val]

LeftFields == {Field("absent", 0), Field("text", 0), Field("int", 0), Field("int", 1)}
RightFields == {Field("absent", 0), Field("int", 1), Field("int", ImgCols)}
ClickXFields == {Field("absent", 0), Field("int", 0), Field("int", ImgCols)}
ClickYFields == {Field("int", 0), Field("int", ImgRows)}

\* colour masks: nothing matches, everything matches, the first column matches
Matches ==
    {[r \in 1..ImgRows |-> [c \in 0..(ImgCols - 1) |-> 0]],
     [r \in 1..ImgRows |-> [c \in 0..(ImgCols - 1) |-> 255]],
     [r \in 1..ImgRows |-> [c \in 0..(ImgCols - 1) |-> IF c = 0 THEN 255 ELSE 0]]}

ContourRequests ==
    [body : {"none", "ok"}, ctype : BOOLEAN,
     image : {"absent", "undecodable", "ok"},
     left : LeftFields, right : RightFields,
     cx : ClickXFields, cy : ClickYFields,
     ref : BOOLEAN, match : Matches, tmp_ok : BOOLEAN]

ContourInit ==
    /\ creq \in ContourRequests
    /\ cresp = NoResp
    /\ dresp = NoResp
    /\ cdecodes = [lib |-> 0, docker |-> 0]
    /\ FeatIdle
    /\ HoldIdle
    /\ RouteIdle
    /\ BucketIdle
    /\ MaskIdle

ContourNext == ContourLib \/ ContourDocker

SpecContour == ContourInit /\ [][ContourNext]_vars

\* a request that is in order except that its image bytes are no image
C11_OnlyImageInvalid(req) ==
    /\ req.image = "undecodable"
    /\ req.body = "ok" /\ req.ctype /\ req.ref /\ req.tmp_ok
    /\ \A f \in {req.left, req.right, req.cx, req.cy} : f.kind = "int"
    /\ 0 <= req.cx.val /\ req.cx.val < ImgCols
    /\ 0 <= req.cy.val /\ req.cy.val < ImgRows

\* an unexpected internal failure: a request that is in order, on a host
\* that cannot create the temporary directory
C11_InternalFailure ==
    [body |-> "ok", ctype |-> TRUE, image |-> "ok",
     left |-> Field("int", 0), right |-> Field("int", ImgCols),
     cx |-> Field("int", 0), cy |-> Field("int", 0), ref |-> TRUE,
     match |-> [r \in 1..ImgRows |-> [c \in 0..(ImgCols - 1) |-> 255]],
     tmp_ok |-> FALSE]

(* C11: when the image handed to the contour extractor cannot be decoded,  *)
(* the request fails: the response is not a success, the image is decoded  *)
(* at most once (no retry), and the status that reports the failure is a   *)
(* client-input error, not the status the same handler gives an unexpected *)
(* internal failure.                                                       *)
C11_ClientInputError ==
    C11_OnlyImageInvalid(creq) =>
        /\ cresp # NoResp =>
              /\ cresp.status # 200
              /\ cdecodes.lib <= 1
              /\ cresp.status # LibResult(C11_InternalFailure).status
        /\ dresp # NoResp =>
              /\ dresp.status # 200
              /\ cdecodes.docker <= 1
              /\ dresp.status # DockerResult(C11_InternalFailure).status

\* the part of C11 both copies keep: an error response, one decode
C11_FailsWithoutRetry ==
    creq.image = "undecodable" =>
        /\ cresp # NoResp => cresp.status # 200 /\ cresp.error # "" /\ cdecodes.lib <= 1
        /\ dresp # NoResp => dresp.status # 200 /\ dresp.error # "" /\ cdecodes.docker <= 1

----------------------------------------------------------------------------
(* The history record and the image it names, over the route requests.     *)

(* C12: every history record in the table names, as its s3_key, an image   *)
(* object that the same request has stored in the bucket: no record        *)
(* references a key that was never stored.                                 *)
C12_RecordKeyStored == \A rec \in rddb : rec.s3_key \in rs3

\* the same, for the requests that carry a full image
C12_RecordKeyStoredWithImage ==
    rreq.full_image => \A rec \in rddb : rec.s3_key \in rs3

----------------------------------------------------------------------------
(* The start hold and the reference point of the height score, over the    *)
(* route requests.                                                         *)

\* a scored request whose start hold is one of the graded holds
C13_StartGraded ==
    /\ rresp # NoResp
    /\ Scored(rresp)
    /\ rreq.start_hold \in 1..Len(rreq.meta)
    /\ rreq.meta[rreq.start_hold].kind = "graded"

\* every pair's height score is max(0, second hold's y - center's y), in
\* cm, / 200 * 20
C13_HeightFrom(center) ==
    \A i \in 1..Len(rresp.pairs) :
        LET dy == rresp.holds[i + 1].center[2] - center[2]
        IN  rresp.pairs[i].h_score = MulDiv(IF dy > 0 THEN ToCm(dy) ELSE 0, 20, 200)

\* the first metadata entry that is graded and lies at the center of entry k
C13_FirstAt(k) ==
    CHOOSE i \in 1..k :
        /\ rreq.meta[i].kind = "graded"
        /\ rreq.meta[i].center = rreq.meta[k].center
        /\ \A j \in 1..(i - 1) :
              ~(rreq.meta[j].kind = "graded" /\ rreq.meta[j].center = rreq.meta[k].center)

(* C13 as stated: when the designated start hold is one of the graded      *)
(* holds, the start hold is the first hold of the ordered sequence, and    *)
(* every pair's height score is measured from the start hold's center,     *)
(* also when another hold shares that center.                              *)
C13_AsStated ==
    C13_StartGraded =>
        /\ rresp.holds[1] = C7_AsHold(rreq.meta[rreq.start_hold])
        /\ C13_HeightFrom(rreq.meta[rreq.start_hold].center)

(* C13 amended: when the designated start hold is one of the graded holds, *)
(* the first hold of the ordered sequence lies at the start hold's center: *)
(* it is the start hold, or, if other graded holds share its center, the   *)
(* one of them the metadata lists first; so every pair's height score is   *)
(* measured from the start hold's own center.                              *)
C13_Amended ==
    C13_StartGraded =>
        /\ rresp.holds[1] = C7_AsHold(rreq.meta[C13_FirstAt(rreq.start_hold)])
        /\ rresp.holds[1].center = rreq.meta[rreq.start_hold].center
        /\ C13_HeightFrom(rreq.meta[rreq.start_hold].center)

\* three graded holds; the start hold is listed second, a hold of the
\* other type at the same center is listed first and comes out first; the
\* third hold lies below both, so the last pair has a height score
C13_Witness ==
    /\ C13_StartGraded
    /\ Len(rreq.meta) = 3
    /\ rreq.start_hold = 2
    /\ \A i \in 1..3 : rreq.meta[i].kind = "graded"
    /\ rreq.meta[1].center = rreq.meta[2].center
    /\ rreq.meta[1].type # rreq.meta[2].type
    /\ rresp.holds[1] = C7_AsHold(rreq.meta[1])
    /\ rresp.holds[2] = C7_AsHold(rreq.meta[2])
    /\ rresp.pairs[2].h_score > 0

====
